---- MODULE Spec2Model ----
(***************************************************************************)
(* Forensic capture tool (src/capture.py): one sequential asyncio task     *)
(* that, for every label and every URL of a fixed list, launches a         *)
(* browser, captures the page (HTML dump, screenshot, network-log stub),   *)
(* appends the capture record to the session manifest, tears the browser   *)
(* down, and finally serializes the manifest and a text report.            *)
(*                                                                         *)
(* The browser, the web, the file system, the wall clock and the user's    *)
(* interrupt are the environment: every awaited browser call may succeed,  *)
(* raise an Exception or be cancelled by a user interrupt; every file      *)
(* write may succeed or raise.                                             *)
(***************************************************************************)
EXTENDS Naturals, Sequences, FiniteSets, TLC

(* ------------------------------ bounds -------------------------------- *)
\* longest label list given on the command line
MaxLabels == 2
\* most failures (exceptions, failed navigations) the environment produces in one run
MaxFaults == 1

(* ------------------------- inputs of the model ------------------------ *)
\* values of --labels entries; the second one holds the separator and a
\* timestamp-like suffix
LabelSet == {"RHO", "RHO_T00"}
\* command lines: --labels, first entry fixed (the other choice is symmetric)
LabelLists ==
  {s \in UNION {[1..n -> LabelSet] : n \in 1..MaxLabels} : s[1] = "RHO"}
\* values of --min-bytes
MinBytesChoices == {0, 3, 6}
\* os.linesep of the platform the tool runs on
LineSeps == {<<"\n">>, <<"\r", "\n">>}
\* the rendered page each target serves during the run, as a sequence of
\* characters: 3 bytes, 2 bytes (one two-byte character), 5 bytes
PageOf(u) ==
  CASE u = "https://httpbin.org/html" -> <<"a", "\n", "b">>
    [] u = "https://httpbin.org/json" -> <<"e'">>
    [] u = "https://www.wikipedia.org/" -> <<"a", "\n", "b", "e'">>

(* ------------------------ program constants --------------------------- *)
target_urls ==
  <<"https://httpbin.org/html", "https://httpbin.org/json",
    "https://www.wikipedia.org/">>

None == "None"

(* --------------------------- pure functions --------------------------- *)
\* str.encode('utf-8') of one character: "e'" stands for U+00E9, two bytes
Utf8Char(c) ==
  CASE c = "a" -> <<97>>
    [] c = "b" -> <<98>>
    [] c = "\n" -> <<10>>
    [] c = "\r" -> <<13>>
    [] c = "e'" -> <<195, 169>>

RECURSIVE Utf8(_)
\* str.encode('utf-8')
Utf8(s) == IF s = <<>> THEN <<>> ELSE Utf8Char(Head(s)) \o Utf8(Tail(s))

RECURSIVE TranslateNewlines(_, _)
\* text-mode write with newline=None: every "\n" becomes os.linesep
TranslateNewlines(s, sep) ==
  IF s = <<>> THEN <<>>
  ELSE (IF Head(s) = "\n" THEN sep ELSE <<Head(s)>>)
       \o TranslateNewlines(Tail(s), sep)

\* bytes that open(html_file, 'w', encoding='utf-8').write(html_content) stores
TextFileBytes(s, sep) == Utf8(TranslateNewlines(s, sep))

\* len(html_content.encode('utf-8'))
HtmlSize(s) == Len(Utf8(s))

\* a size gate that lets a page one byte short through
TooSmallOffByOne(size, minb) == size + 1 < minb
\* the size gate: TRUE when the page is discarded
TooSmall(size, minb) == size < minb

\* hashlib.md5(...).hexdigest() / sha256: collision-free on the modelled inputs
Md5Hex(s) == "md5(" \o s \o ")"
Md5Bytes(b) == <<"md5", b>>
Sha256Bytes(b) == <<"sha256", b>>

Digits == <<"0", "1", "2", "3", "4", "5", "6", "7", "8", "9">>
\* datetime.now().isoformat(): fixed-width rendering of the clock
IsoFormat(t) == "T" \o Digits[((t \div 10) % 10) + 1] \o Digits[(t % 10) + 1]

\* f"{url}_{label}_{capture_timestamp}"
IdString(url, label, ts) == url \o "_" \o label \o "_" \o ts
\* an id that leaves the timestamp out of the digest
CaptureIdNoTimestamp(url, label, ts) == Md5Hex(url \o "_" \o label)
CaptureId(url, label, ts) == Md5Hex(IdString(url, label, ts))

HtmlFile(id, label) == "html_dumps/" \o id \o "_" \o label \o ".html"
ScreenshotFile(id, label) == "screenshots/" \o id \o "_" \o label \o ".png"
NetworkFile(id, label) == "network_logs/" \o id \o "_" \o label \o "_network.json"

\* the capture_data dict (the fields derived by the HTML parser are left out)
CaptureData(id, label, url, ts, content) ==
  [capture_id |-> id, label |-> label, url_original |-> url, timestamp |-> ts,
   html_size |-> HtmlSize(content),
   files |-> [html |-> HtmlFile(id, label),
              screenshot |-> ScreenshotFile(id, label),
              network |-> NetworkFile(id, label)],
   hash_md5 |-> Md5Bytes(Utf8(content)),
   hash_sha256 |-> Sha256Bytes(Utf8(content))]

\* open(path, 'w') + write: the file is created or replaced
WriteFile(d, path, data) ==
  {f \in d : f.path # path} \cup {[path |-> path, data |-> data]}

Paths(d) == {f.path : f \in d}
FileData(d, path) == (CHOOSE f \in d : f.path = path).data

(* ------------------------------- state -------------------------------- *)
VARIABLES
  labels, min_bytes, linesep,          \* command line and platform
  pc, li, ui, pending,                 \* control: position, loop indices, exception in flight
  playwright, browser, page,           \* self.playwright, locals of the URL iteration
  open_drivers, open_browsers, open_pages,   \* what is running in the environment
  capture_timestamp, capture_id, html_content, capture_data,  \* capture_page_data
  captures, all_captures, manifest, total_captures,           \* accumulators
  disk, written, manifest_file, report_file, exit_status, clock,  \* outside world
  faults, interrupt_at,                \* failures so far, where the first interrupt arrived
  attempts, teardown_faults, cleanup_calls, hist, manifest_writes,  \* history
  issued, records_before

inputs == <<labels, min_bytes, linesep>>
resources == <<playwright, browser, page, open_drivers, open_browsers, open_pages>>
locals == <<capture_timestamp, capture_id, html_content, capture_data>>
accum == <<captures, all_captures, manifest, total_captures>>
world == <<disk, written, manifest_file, report_file, exit_status>>
history == <<attempts, teardown_faults, cleanup_calls, hist, manifest_writes,
             issued, records_before>>
vars == <<inputs, pc, li, ui, pending, resources, locals, accum, world, clock,
          faults, interrupt_at, history>>

NoHist == [nav |-> "none", idle |-> "none", raised |-> FALSE, result |-> "pending"]

label == labels[li]
url == target_urls[ui]

Init ==
  /\ labels \in LabelLists
  /\ min_bytes \in MinBytesChoices
  /\ linesep \in LineSeps
  /\ pc = "next_label" /\ li = 1 /\ ui = 1 /\ pending = "none"
  /\ playwright = "unset" /\ browser = None /\ page = None
  /\ open_drivers = 0 /\ open_browsers = 0 /\ open_pages = 0
  /\ capture_timestamp = None /\ capture_id = None
  /\ html_content = <<>> /\ capture_data = <<>>
  /\ captures = <<>> /\ all_captures = <<>> /\ manifest = <<>>
  /\ total_captures = <<>>
  /\ disk = {} /\ written = {} /\ manifest_file = <<>> /\ report_file = <<>>
  /\ exit_status = "running" /\ clock = 0
  /\ faults = 0 /\ interrupt_at = "never" /\ attempts = <<>>
  /\ teardown_faults = {} /\ cleanup_calls = {} /\ hist = NoHist
  /\ manifest_writes = 0 /\ issued = {} /\ records_before = 0

(* ------------------------- run_capture: the loops --------------------- *)
\* all_captures = captures in place of extend
ExtendOverwrite(all, caps) == caps
\* all_captures.extend(captures)
Extend(all, caps) == all \o caps

\* for label in self.labels: search_and_capture(label) starts with captures = []
NextLabel ==
  /\ pc = "next_label"
  /\ IF li <= Len(labels)
       THEN /\ pc' = "next_url" /\ ui' = 1 /\ captures' = <<>>
       ELSE /\ pc' = "write_manifest" /\ UNCHANGED <<ui, captures>>
  /\ UNCHANGED <<inputs, li, pending, resources, locals, all_captures, manifest,
                 total_captures, world, clock, faults, interrupt_at, history>>

\* for url in target_urls: browser = None; page = None; after the last URL
\* search_and_capture returns and run_capture extends all_captures
NextUrl ==
  /\ pc = "next_url"
  /\ IF ui <= Len(target_urls)
       THEN /\ pc' = "pw_start"
            /\ browser' = None /\ page' = None
            /\ attempts' = Append(attempts, <<li, ui>>)
            /\ cleanup_calls' = {} /\ hist' = NoHist
            /\ records_before' = Len(manifest)
            /\ capture_timestamp' = None /\ capture_id' = None
            /\ html_content' = <<>> /\ capture_data' = <<>>
            /\ UNCHANGED all_captures
       ELSE /\ pc' = "label_sleep"
            /\ all_captures' = Extend(all_captures, captures)
            /\ UNCHANGED <<browser, page, attempts, cleanup_calls, hist, locals,
                           records_before>>
  /\ UNCHANGED <<inputs, li, ui, pending, playwright, open_drivers, open_browsers,
                 open_pages, captures, manifest, total_captures, world, clock,
                 faults, interrupt_at, teardown_faults, manifest_writes, issued>>

\* await asyncio.sleep(1) between labels; a cancellation here leaves run_capture
LabelSleep ==
  /\ pc = "label_sleep"
  /\ \/ /\ pc' = "next_label" /\ li' = li + 1 /\ clock' = clock + 1
        /\ UNCHANGED <<exit_status, interrupt_at>>
     \/ /\ pc' = "exited" /\ exit_status' = "1"
        /\ interrupt_at' = IF interrupt_at = "never" THEN pc ELSE interrupt_at
        /\ UNCHANGED <<li, clock>>
  /\ UNCHANGED <<inputs, ui, pending, resources, locals, accum, disk, written,
                 manifest_file, report_file, faults, history>>

(* --------------------- search_and_capture: try body ------------------- *)
\* an Exception in the try body that is not caught and ends the run
CaughtAbort ==
  /\ faults < MaxFaults
  /\ faults' = faults + 1
  /\ pc' = "exited"
  /\ UNCHANGED <<pending, interrupt_at>>

\* an Exception raised in the try body: caught and logged, then the finally block
Caught ==
  /\ faults < MaxFaults
  /\ faults' = faults + 1
  /\ pc' = "close_page"
  /\ UNCHANGED <<pending, interrupt_at>>

\* a cancellation swallowed by the except clause like an Exception
CancelledSwallowed ==
  /\ pc' = "close_page"
  /\ interrupt_at' = IF interrupt_at = "never" THEN pc ELSE interrupt_at
  /\ UNCHANGED <<pending, faults>>

\* a cancellation (user interrupt) in the try body: not an Exception, so the
\* finally block runs with the cancellation still in flight
Cancelled ==
  /\ pc' = "close_page"
  /\ pending' = "cancelled"
  /\ interrupt_at' = IF interrupt_at = "never" THEN pc ELSE interrupt_at
  /\ UNCHANGED faults

\* setup_browser: self.playwright = await async_playwright().start()
StartPlaywright ==
  /\ pc = "pw_start"
  /\ \/ /\ pc' = "launch"
        /\ playwright' = "running" /\ open_drivers' = open_drivers + 1
        /\ UNCHANGED <<pending, faults, interrupt_at>>
     \/ Caught /\ UNCHANGED <<playwright, open_drivers>>
     \/ Cancelled /\ UNCHANGED <<playwright, open_drivers>>
  /\ UNCHANGED <<inputs, li, ui, browser, page, open_browsers, open_pages, locals,
                 accum, world, clock, history>>

\* setup_browser: browser = await self.playwright.chromium.launch(...)
Launch ==
  /\ pc = "launch"
  /\ \/ /\ pc' = "new_page"
        /\ browser' = "open" /\ open_browsers' = open_browsers + 1
        /\ UNCHANGED <<pending, faults, interrupt_at>>
     \/ Caught /\ UNCHANGED <<browser, open_browsers>>
     \/ Cancelled /\ UNCHANGED <<browser, open_browsers>>
  /\ UNCHANGED <<inputs, li, ui, playwright, page, open_drivers, open_pages, locals,
                 accum, world, clock, history>>

\* page = await browser.new_page(); page.on("request", ...)
NewPage ==
  /\ pc = "new_page"
  /\ \/ /\ pc' = "goto"
        /\ page' = "open" /\ open_pages' = open_pages + 1
        /\ UNCHANGED <<pending, faults, interrupt_at>>
     \/ Caught /\ UNCHANGED <<page, open_pages>>
     \/ Cancelled /\ UNCHANGED <<page, open_pages>>
  /\ UNCHANGED <<inputs, li, ui, playwright, browser, open_drivers, open_browsers,
                 locals, accum, world, clock, history>>

(* ------------------------- capture_page_data -------------------------- *)
\* page.goto gave no response, a response that is not ok, or raised
NavFailures == {"no response", "not ok", "exception"}
\* a failed navigation that is not checked: the capture goes on
AfterNavFailureGoOn == "idle"
\* where a failed navigation goes: return None, back in search_and_capture
AfterNavFailure == "rate_wait"

\* capture_timestamp, capture_id, then page.goto(url, timeout=30000): a response
\* that is ok, no response, a response that is not ok, or an exception (caught
\* inside capture_page_data: return None)
Goto ==
  /\ pc = "goto"
  /\ capture_timestamp' = IsoFormat(clock)
  /\ capture_id' = CaptureId(url, label, IsoFormat(clock))
  /\ issued' = issued \cup {[url |-> url, label |-> label,
                              timestamp |-> IsoFormat(clock),
                              capture_id |-> CaptureId(url, label, IsoFormat(clock))]}
  /\ \/ /\ pc' = "idle"
        /\ hist' = [hist EXCEPT !.nav = "ok"]
        /\ UNCHANGED <<pending, faults, interrupt_at>>
     \/ /\ faults < MaxFaults /\ faults' = faults + 1
        /\ \E how \in NavFailures :
             hist' = [hist EXCEPT !.nav = how,
                                  !.result = IF AfterNavFailure = "rate_wait"
                                               THEN "None" ELSE @]
        /\ pc' = AfterNavFailure
        /\ UNCHANGED <<pending, interrupt_at>>
     \/ /\ Cancelled
        /\ hist' = [hist EXCEPT !.result = "cancelled"]
  /\ UNCHANGED <<inputs, li, ui, resources, html_content, capture_data, accum,
                 world, clock, attempts, teardown_faults, cleanup_calls,
                 manifest_writes, records_before>>

\* an idle timeout that gives the capture up: return None
AfterIdleTimeoutGiveUp == "rate_wait"
\* target of a network-idle wait that raised (timeout): continue anyway
AfterIdleTimeout == "grace"

\* page.wait_for_load_state('networkidle', timeout=10000) in try/except Exception
WaitIdle ==
  /\ pc = "idle"
  /\ \/ /\ pc' = "grace"
        /\ hist' = [hist EXCEPT !.idle = "ok"]
        /\ UNCHANGED <<pending, faults, interrupt_at>>
     \/ /\ pc' = AfterIdleTimeout
        /\ hist' = [hist EXCEPT !.idle = "timeout",
                                !.result = IF AfterIdleTimeout = "grace"
                                             THEN @ ELSE "None"]
        /\ UNCHANGED <<pending, faults, interrupt_at>>
     \/ /\ Cancelled
        /\ hist' = [hist EXCEPT !.result = "cancelled"]
  /\ UNCHANGED <<inputs, li, ui, resources, locals, accum, world, clock, attempts,
                 teardown_faults, cleanup_calls, manifest_writes, issued, records_before>>

\* await page.wait_for_timeout(1000): the grace delay
Grace ==
  /\ pc = "grace"
  /\ \/ /\ pc' = "content"
        /\ UNCHANGED <<pending, faults, interrupt_at, hist>>
     \/ /\ Caught
        /\ hist' = [hist EXCEPT !.raised = TRUE, !.result = "raised"]
     \/ /\ Cancelled
        /\ hist' = [hist EXCEPT !.result = "cancelled"]
  /\ UNCHANGED <<inputs, li, ui, resources, locals, accum, world, clock, attempts,
                 teardown_faults, cleanup_calls, manifest_writes, issued, records_before>>

\* html_content = await page.content(); html_size; the size gate
Content ==
  /\ pc = "content"
  /\ \/ /\ LET c == PageOf(url) IN
             /\ html_content' = c
             /\ IF TooSmall(HtmlSize(c), min_bytes)
                  THEN /\ pc' = "rate_wait"
                       /\ hist' = [hist EXCEPT !.result = "None"]
                  ELSE /\ pc' = "write_html"
                       /\ UNCHANGED hist
        /\ UNCHANGED <<pending, faults, interrupt_at>>
     \/ /\ Caught
        /\ hist' = [hist EXCEPT !.raised = TRUE, !.result = "raised"]
        /\ UNCHANGED html_content
     \/ /\ Cancelled
        /\ hist' = [hist EXCEPT !.result = "cancelled"]
        /\ UNCHANGED html_content
  /\ UNCHANGED <<inputs, li, ui, resources, capture_timestamp, capture_id,
                 capture_data, accum, world, clock, attempts, teardown_faults,
                 cleanup_calls, manifest_writes, issued, records_before>>

\* what the HTML dump holds after a successful write
HtmlDump(content, sep) == TextFileBytes(content, sep)

\* with open(html_file, 'w', encoding='utf-8') as f: f.write(html_content);
\* a failing write leaves no file or a truncated one
WriteHtml ==
  /\ pc = "write_html"
  /\ \/ /\ pc' = "screenshot"
        /\ disk' = WriteFile(disk, HtmlFile(capture_id, label),
                             HtmlDump(html_content, linesep))
        /\ written' = written \cup {HtmlFile(capture_id, label)}
        /\ UNCHANGED <<pending, faults, interrupt_at, hist>>
     \/ /\ Caught
        /\ hist' = [hist EXCEPT !.raised = TRUE, !.result = "raised"]
        /\ \/ UNCHANGED <<disk, written>>
           \/ /\ disk' = WriteFile(disk, HtmlFile(capture_id, label), <<>>)
              /\ written' = written \cup {HtmlFile(capture_id, label)}
  /\ UNCHANGED <<inputs, li, ui, resources, locals, accum, manifest_file,
                 report_file, exit_status, clock, attempts, teardown_faults,
                 cleanup_calls, manifest_writes, issued, records_before>>

\* a screenshot whose failure is swallowed: the capture goes on without the file
ScreenshotSwallowed ==
  /\ pc = "screenshot"
  /\ \/ /\ pc' = "title"
        /\ disk' = WriteFile(disk, ScreenshotFile(capture_id, label), <<137>>)
        /\ written' = written \cup {ScreenshotFile(capture_id, label)}
        /\ UNCHANGED <<pending, faults, interrupt_at, hist>>
     \/ /\ faults < MaxFaults /\ faults' = faults + 1
        /\ pc' = "title"
        /\ UNCHANGED <<disk, written, pending, interrupt_at, hist>>
     \/ /\ Cancelled
        /\ hist' = [hist EXCEPT !.result = "cancelled"]
        /\ UNCHANGED <<disk, written>>
  /\ UNCHANGED <<inputs, li, ui, resources, locals, accum, manifest_file,
                 report_file, exit_status, clock, attempts, teardown_faults,
                 cleanup_calls, manifest_writes, issued, records_before>>

\* await page.screenshot(path=..., full_page=True)
Screenshot ==
  /\ pc = "screenshot"
  /\ \/ /\ pc' = "title"
        /\ disk' = WriteFile(disk, ScreenshotFile(capture_id, label), <<137>>)
        /\ written' = written \cup {ScreenshotFile(capture_id, label)}
        /\ UNCHANGED <<pending, faults, interrupt_at, hist>>
     \/ /\ Caught
        /\ hist' = [hist EXCEPT !.raised = TRUE, !.result = "raised"]
        /\ UNCHANGED <<disk, written>>
     \/ /\ Cancelled
        /\ hist' = [hist EXCEPT !.result = "cancelled"]
        /\ UNCHANGED <<disk, written>>
  /\ UNCHANGED <<inputs, li, ui, resources, locals, accum, manifest_file,
                 report_file, exit_status, clock, attempts, teardown_faults,
                 cleanup_calls, manifest_writes, issued, records_before>>

\* title = await page.title(); the parsing and the capture_data dict follow
Title ==
  /\ pc = "title"
  /\ \/ /\ pc' = "write_network"
        /\ UNCHANGED <<pending, faults, interrupt_at, hist>>
     \/ /\ Caught
        /\ hist' = [hist EXCEPT !.raised = TRUE, !.result = "raised"]
     \/ /\ Cancelled
        /\ hist' = [hist EXCEPT !.result = "cancelled"]
  /\ UNCHANGED <<inputs, li, ui, resources, locals, accum, world, clock, attempts,
                 teardown_faults, cleanup_calls, manifest_writes, issued, records_before>>

\* json.dump(network_data, f); return capture_data; back in search_and_capture
\* the record is appended to captures and to capture_metadata['captures']
WriteNetwork ==
  /\ pc = "write_network"
  /\ \/ /\ pc' = "rate_wait"
        /\ disk' = WriteFile(disk, NetworkFile(capture_id, label), <<123>>)
        /\ written' = written \cup {NetworkFile(capture_id, label)}
        /\ LET rec == CaptureData(capture_id, label, url, capture_timestamp,
                                  html_content)
           IN /\ capture_data' = <<rec>>
              /\ captures' = Append(captures, rec)
              /\ manifest' = Append(manifest, rec)
        /\ hist' = [hist EXCEPT !.result = "record"]
        /\ UNCHANGED <<pending, faults, interrupt_at>>
     \/ /\ Caught
        /\ hist' = [hist EXCEPT !.raised = TRUE, !.result = "raised"]
        /\ UNCHANGED <<disk, written, capture_data, captures, manifest>>
  /\ UNCHANGED <<inputs, li, ui, resources, capture_timestamp, capture_id,
                 html_content, all_captures, total_captures, manifest_file,
                 report_file, exit_status, clock, attempts, teardown_faults,
                 cleanup_calls, manifest_writes, issued, records_before>>

\* await page.wait_for_timeout(1000): rate limiting, after the capture returned
RateWait ==
  /\ pc = "rate_wait"
  /\ \/ /\ pc' = "close_page"
        /\ UNCHANGED <<pending, faults, interrupt_at>>
     \/ Caught
     \/ Cancelled
  /\ hist' = [NoHist EXCEPT !.result = hist.result]
  /\ UNCHANGED <<inputs, li, ui, resources, locals, accum, world, clock, attempts,
                 teardown_faults, cleanup_calls, manifest_writes, issued, records_before>>

(* ------------------ search_and_capture: finally block ----------------- *)
\* a cancellation inside the finally block is no Exception: it leaves the
\* block at once, run_capture and asyncio.run; main exits with status 1
CancelledInFinally ==
  /\ pc' = "exited"
  /\ exit_status' = "1"
  /\ interrupt_at' = IF interrupt_at = "never" THEN pc ELSE interrupt_at
  /\ teardown_faults' = teardown_faults \cup {"cancelled"}
  /\ UNCHANGED <<faults, ui, pending>>

\* if page: try: await page.close() except Exception: pass
ClosePage ==
  /\ pc = "close_page"
  /\ IF page = None
       THEN /\ pc' = "close_browser"
            /\ UNCHANGED <<page, open_pages, cleanup_calls, teardown_faults, faults,
                           interrupt_at, exit_status, ui, pending>>
       ELSE /\ cleanup_calls' = cleanup_calls \cup {"page"}
            /\ \/ /\ pc' = "close_browser"
                  /\ page' = "closed" /\ open_pages' = open_pages - 1
                  /\ UNCHANGED <<teardown_faults, faults, interrupt_at, exit_status,
                                 ui, pending>>
               \/ /\ faults < MaxFaults /\ faults' = faults + 1
                  /\ pc' = "close_browser" /\ teardown_faults' = teardown_faults \cup {"raised"}
                  /\ UNCHANGED <<page, open_pages, interrupt_at, exit_status, ui,
                                 pending>>
               \/ /\ CancelledInFinally
                  /\ UNCHANGED <<page, open_pages>>
  /\ UNCHANGED <<inputs, li, playwright, browser, open_drivers, open_browsers,
                 locals, accum, disk, written, manifest_file, report_file, clock, attempts,
                 hist, manifest_writes, issued, records_before>>

\* a finally block that never closes the browser
CloseBrowserSkipped ==
  /\ pc = "close_browser"
  /\ pc' = "stop_pw"
  /\ UNCHANGED <<inputs, li, ui, pending, resources, locals, accum, world, clock,
                 faults, interrupt_at, history>>

\* if browser: try: await browser.close() except Exception: pass
\* (closing a browser closes the page it still holds)
CloseBrowser ==
  /\ pc = "close_browser"
  /\ IF browser = None
       THEN /\ pc' = "stop_pw"
            /\ UNCHANGED <<browser, page, open_browsers, open_pages, cleanup_calls,
                           teardown_faults, faults, interrupt_at, exit_status, ui,
                           pending>>
       ELSE /\ cleanup_calls' = cleanup_calls \cup {"browser"}
            /\ \/ /\ pc' = "stop_pw"
                  /\ browser' = "closed" /\ open_browsers' = open_browsers - 1
                  /\ page' = IF page = "open" THEN "closed" ELSE page
                  /\ open_pages' = IF page = "open" THEN open_pages - 1
                                   ELSE open_pages
                  /\ UNCHANGED <<teardown_faults, faults, interrupt_at, exit_status,
                                 ui, pending>>
               \/ /\ faults < MaxFaults /\ faults' = faults + 1
                  /\ pc' = "stop_pw" /\ teardown_faults' = teardown_faults \cup {"raised"}
                  /\ UNCHANGED <<browser, page, open_browsers, open_pages,
                                 interrupt_at, exit_status, ui, pending>>
               \/ /\ CancelledInFinally
                  /\ UNCHANGED <<browser, page, open_browsers, open_pages>>
  /\ UNCHANGED <<inputs, li, playwright, open_drivers, locals, accum, disk, written,
                 manifest_file, report_file, clock, attempts, hist,
                 manifest_writes, issued, records_before>>

\* the end of the finally block: a cancellation in flight goes on to main and
\* exits with status 1, otherwise the for loop takes the next URL
EndFinally ==
  IF pending = "cancelled"
    THEN pc' = "exited" /\ exit_status' = "1" /\ UNCHANGED ui
    ELSE pc' = "next_url" /\ ui' = ui + 1 /\ UNCHANGED exit_status

\* if hasattr(self, 'playwright'): try: await self.playwright.stop()
\* except Exception: pass.  self.playwright may be the driver of an earlier
\* URL, already stopped, when this URL's start() failed.
StopPlaywright ==
  /\ pc = "stop_pw"
  /\ IF playwright = "unset"
       THEN /\ EndFinally
            /\ UNCHANGED <<playwright, open_drivers, cleanup_calls, teardown_faults,
                           faults, interrupt_at, pending>>
       ELSE /\ cleanup_calls' = cleanup_calls \cup {"playwright"}
            /\ \/ /\ EndFinally
                  /\ playwright' = "stopped"
                  /\ open_drivers' = IF playwright = "running"
                                       THEN open_drivers - 1 ELSE open_drivers
                  /\ UNCHANGED <<teardown_faults, faults, interrupt_at, pending>>
               \/ /\ faults < MaxFaults /\ faults' = faults + 1
                  /\ EndFinally /\ teardown_faults' = teardown_faults \cup {"raised"}
                  /\ UNCHANGED <<playwright, open_drivers, interrupt_at, pending>>
               \/ /\ CancelledInFinally
                  /\ UNCHANGED <<playwright, open_drivers>>
  /\ UNCHANGED <<inputs, li, browser, page, open_browsers, open_pages, locals,
                 accum, disk, written, manifest_file, report_file, clock, attempts, hist,
                 manifest_writes, issued, records_before>>

(* ------------------- run_capture: manifest and report ----------------- *)
\* json.dump(self.capture_metadata, f, indent=2) with total_captures set
ManifestJson ==
  [complete |-> TRUE, labels |-> labels, min_bytes |-> min_bytes,
   captures |-> manifest, total_captures |-> Len(all_captures)]

\* total_captures = len(all_captures); the metadata file is written; an OSError
\* leaves run_capture (no file or a truncated one) and main exits with status 1
WriteManifest ==
  /\ pc = "write_manifest"
  /\ total_captures' = <<Len(all_captures)>>
  /\ \/ /\ pc' = "report"
        /\ manifest_file' = <<ManifestJson>>
        /\ manifest_writes' = manifest_writes + 1
        /\ UNCHANGED <<faults, exit_status, pending>>
     \/ /\ faults < MaxFaults /\ faults' = faults + 1
        /\ pc' = "exited" /\ exit_status' = "1"
        /\ manifest_file' \in {<<>>, <<[ManifestJson EXCEPT !.complete = FALSE]>>}
        /\ pending' = "exception"
        /\ UNCHANGED manifest_writes
  /\ UNCHANGED <<inputs, li, ui, resources, locals, captures, all_captures,
                 manifest, disk, written, report_file, clock, interrupt_at,
                 attempts, teardown_faults, cleanup_calls, hist, issued,
                 records_before>>

\* generate_report(): header plus one block per capture
ReportText == [complete |-> TRUE, total |-> Len(manifest), details |-> manifest]

GenerateReport ==
  /\ pc = "report"
  /\ \/ /\ pc' = "return"
        /\ report_file' = <<ReportText>>
        /\ UNCHANGED <<faults, exit_status, pending>>
     \/ /\ faults < MaxFaults /\ faults' = faults + 1
        /\ pc' = "exited" /\ exit_status' = "1"
        /\ report_file' \in {<<>>, <<[ReportText EXCEPT !.complete = FALSE]>>}
        /\ pending' = "exception"
  /\ UNCHANGED <<inputs, li, ui, resources, locals, accum, disk, written,
                 manifest_file, clock, interrupt_at, history>>

\* run_capture returns; a cancellation requested after its last await makes
\* asyncio.run raise KeyboardInterrupt and main exit with status 1
Return ==
  /\ pc = "return"
  /\ pc' = "exited"
  /\ exit_status' = IF interrupt_at # "never" THEN "1" ELSE "0"
  /\ UNCHANGED <<inputs, li, ui, pending, resources, locals, accum, disk, written,
                 manifest_file, report_file, clock, faults, interrupt_at, history>>

\* a user interrupt after the last await of run_capture: the cancellation is
\* requested but no await is left to deliver it, or (interpreters that raise
\* KeyboardInterrupt in place) the run stops where it is
InterruptTail ==
  /\ pc \in {"write_manifest", "report", "return"}
  /\ interrupt_at = "never"
  /\ interrupt_at' = IF interrupt_at = "never" THEN pc ELSE interrupt_at
  /\ \/ UNCHANGED <<pc, exit_status>>
     \/ pc' = "exited" /\ exit_status' = "1"
  /\ UNCHANGED <<inputs, li, ui, pending, resources, locals, accum, disk, written,
                 manifest_file, report_file, clock, faults, history>>

Next ==
  \/ NextLabel \/ NextUrl \/ LabelSleep
  \/ StartPlaywright \/ Launch \/ NewPage
  \/ Goto \/ WaitIdle \/ Grace \/ Content \/ WriteHtml \/ Screenshot \/ Title
  \/ WriteNetwork \/ RateWait
  \/ ClosePage \/ CloseBrowser \/ StopPlaywright
  \/ WriteManifest \/ GenerateReport \/ Return \/ InterruptTail

Spec == Init /\ [][Next]_vars

(* ---------------------------- vocabulary ------------------------------ *)
TryPcs ==
  {"pw_start", "launch", "new_page", "goto", "idle", "grace", "content",
   "write_html", "screenshot", "title", "write_network", "rate_wait"}
TeardownPcs == {"close_page", "close_browser", "stop_pw"}
AwaitPcs == TryPcs \cup TeardownPcs \cup {"label_sleep"}
TailPcs == {"write_manifest", "report", "return"}

\* every (label, URL) pair, labels in order, URLs in order within a label
ExpectedAttempts ==
  [k \in 1..(Len(target_urls) * Len(labels)) |->
     <<((k - 1) \div Len(target_urls)) + 1, ((k - 1) % Len(target_urls)) + 1>>]

IsPrefix(a, b) == Len(a) <= Len(b) /\ a = SubSeq(b, 1, Len(a))

NothingOpen == open_drivers = 0 /\ open_browsers = 0 /\ open_pages = 0

\* the rendered page of the capture in progress is below the threshold
Undersized == html_content # <<>> /\ HtmlSize(html_content) < min_bytes

\* no artifact of the capture in progress is on disk
NoArtifacts ==
  {HtmlFile(capture_id, label), ScreenshotFile(capture_id, label),
   NetworkFile(capture_id, label)} \cap Paths(disk) = {}

\* every resource the URL in progress started has had its close call made
AllTeardownCalls ==
  /\ page # None => "page" \in cleanup_calls
  /\ browser # None => "browser" \in cleanup_calls
  /\ playwright # "unset" => "playwright" \in cleanup_calls

\* the first close call the finally block has to make was made
FirstTeardownCall ==
  /\ page # None => "page" \in cleanup_calls
  /\ (page = None /\ browser # None) => "browser" \in cleanup_calls
  /\ (page = None /\ browser = None /\ playwright # "unset")
       => "playwright" \in cleanup_calls

(* ------------------------------ claims -------------------------------- *)
\* C1: every record of capture_metadata['captures'], in memory and in the
\* serialized manifest, has html_size >= min_bytes.
C1_HtmlSizeAtLeastMinBytes ==
  /\ \A i \in DOMAIN manifest : manifest[i].html_size >= min_bytes
  /\ \A k \in DOMAIN manifest_file :
       \A i \in DOMAIN manifest_file[k].captures :
         manifest_file[k].captures[i].html_size >= manifest_file[k].min_bytes

\* a completed run with threshold 3 and no failure that kept the 3-byte and the
\* 5-byte page and dropped the 2-byte one
C1_Witness ==
  /\ pc = "exited" /\ exit_status = "0" /\ faults = 0 /\ min_bytes = 3
  /\ Len(manifest) = 2 * Len(labels)
  /\ \E i \in DOMAIN manifest : manifest[i].html_size = min_bytes

\* C2: the three files named by a record's files field are on disk, from the
\* moment the record is appended to the end of the run.
C2_RecordFilesExist ==
  \A i \in DOMAIN manifest :
    {manifest[i].files.html, manifest[i].files.screenshot,
     manifest[i].files.network} \subseteq Paths(disk)

\* a completed run that holds a record and also a file of a capture that failed
\* after its HTML dump was written
C2_Witness ==
  /\ pc = "exited" /\ exit_status = "0" /\ Len(manifest) > 0
  /\ \E f \in disk : \A i \in DOMAIN manifest :
       f.path \notin {manifest[i].files.html, manifest[i].files.screenshot,
                      manifest[i].files.network}

\* C3: one attempt per (label, URL), in order, never repeated; an attempt that
\* failed adds no record; no failure ends the run: it gets to the manifest
\* write with every attempt made, and only an interrupt cuts the loops short.
C3_EveryUrlAttemptedOnce ==
  /\ IsPrefix(attempts, ExpectedAttempts)
  /\ pc \in TryPcs \cup TeardownPcs =>
       Len(manifest) = records_before + (IF hist.result = "record" THEN 1 ELSE 0)
  /\ (pc \in TailPcs \/ (pc = "exited" /\ interrupt_at \notin AwaitPcs)) =>
       attempts = ExpectedAttempts

\* two labels, a failure on the way, and the run is at the manifest write with
\* all six attempts made
C3_Witness ==
  /\ pc = "write_manifest" /\ faults = 1 /\ Len(labels) = 2
  /\ attempts = ExpectedAttempts /\ interrupt_at = "never"

C5_NoCaptureWithoutArtifacts ==
  (pc \in TryPcs \cup TeardownPcs /\ (hist.nav \in NavFailures \/ Undersized)) =>
    /\ hist.result = "None" /\ ~hist.raised
    /\ capture_data = <<>>
    /\ Len(manifest) = records_before
    /\ NoArtifacts

\* a navigation failed under the second label, after the same URL was captured
\* under the first
C5_Witness ==
  /\ pc = "rate_wait" /\ hist.nav = "not ok" /\ li = 2 /\ ui = 1
  /\ Len(manifest) > 0 /\ manifest[1].url_original = url

\* C6: whether the network-idle wait succeeded or timed out, the capture
\* returns None exactly when the page is undersized and a record otherwise; a
\* timeout alone never ends the capture.
C6_IdleTimeoutNonFatal ==
  /\ (pc = "rate_wait" /\ hist.idle # "none") =>
       IF Undersized
         THEN hist.result = "None" /\ capture_data = <<>>
         ELSE hist.result = "record" /\ capture_data # <<>>
  /\ (pc \in TeardownPcs /\ hist.idle = "timeout") =>
       (hist.raised \/ hist.result = "cancelled")

\* the idle wait timed out and the capture returned a record
C6_Witness ==
  /\ pc = "rate_wait" /\ hist.idle = "timeout" /\ hist.result = "record"
  /\ capture_data # <<>>

\* C7: for every record, the digests and the byte length recomputed from the
\* saved HTML file are the recorded hash_md5, hash_sha256 and html_size.
C7_HashesMatchSavedFile ==
  \A i \in DOMAIN manifest :
    /\ manifest[i].files.html \in Paths(disk)
    /\ LET data == FileData(disk, manifest[i].files.html)
       IN /\ Md5Bytes(data) = manifest[i].hash_md5
          /\ Sha256Bytes(data) = manifest[i].hash_sha256
          /\ Len(data) = manifest[i].html_size

\* C8: capture attempts that differ in URL, label or timestamp have distinct
\* capture ids, and any two records of the manifest have distinct capture ids
\* and distinct artifact file names.
C8_CaptureIdsDistinct ==
  /\ \A a, b \in issued :
       (a.url # b.url \/ a.label # b.label \/ a.timestamp # b.timestamp)
         => a.capture_id # b.capture_id
  /\ \A i, j \in DOMAIN manifest :
       i # j =>
         /\ manifest[i].capture_id # manifest[j].capture_id
         /\ manifest[i].files.html # manifest[j].files.html
         /\ manifest[i].files.screenshot # manifest[j].files.screenshot
         /\ manifest[i].files.network # manifest[j].files.network

\* two records of the same URL under the same label, taken at two timestamps
C8_Witness ==
  \E i, j \in DOMAIN manifest :
    /\ i < j
    /\ manifest[i].url_original = manifest[j].url_original
    /\ manifest[i].label = manifest[j].label
    /\ manifest[i].timestamp # manifest[j].timestamp

\* C9: the manifest is serialized at most once, after the last attempt of the
\* last label, and the report after it; total_captures is the length of the
\* captures list, which is the list of records returned; a run with no
\* interrupt and no escaping failure ends with both files and status 0.
C9_ManifestWrittenOnce ==
  /\ manifest_writes <= 1
  /\ report_file # <<>> => manifest_writes = 1
  /\ manifest_writes = 1 =>
       /\ attempts = ExpectedAttempts
       /\ manifest_file[1].complete
       /\ manifest_file[1].captures = manifest
       /\ manifest_file[1].total_captures = Len(manifest_file[1].captures)
  /\ (pc = "exited" /\ interrupt_at = "never" /\ pending # "exception") =>
       /\ exit_status = "0"
       /\ manifest_writes = 1
       /\ report_file # <<>> /\ report_file[1].complete

\* threshold above every page: two labels, empty captures list, total 0, the
\* report written, status 0
C9_Witness ==
  /\ pc = "exited" /\ exit_status = "0" /\ min_bytes = 6 /\ Len(labels) = 2
  /\ manifest_writes = 1 /\ manifest_file[1].captures = <<>>
  /\ manifest_file[1].total_captures = 0
  /\ report_file # <<>>

\* C10 as stated: one interrupt at any point exits with status 1, leaves the
\* artifacts on disk, still has every close call of the URL in progress made,
\* and, arriving before the serialization step, leaves no manifest and no
\* report.  (A run that a second interrupt cut short during the finally block
\* is not held against the statement.)
C10_InterruptAsStated ==
  /\ (pc = "exited" /\ (interrupt_at # "never" \/ pending = "exception")) =>
       exit_status = "1"
  /\ written \subseteq Paths(disk)
  /\ (pc = "exited" /\ interrupt_at \in TryPcs
        /\ "cancelled" \notin teardown_faults) => AllTeardownCalls
  /\ (pc = "exited" /\ interrupt_at \in TeardownPcs) => AllTeardownCalls
  /\ (pc = "exited" /\ interrupt_at \notin {"never", "report", "return"}) =>
       (manifest_file = <<>> /\ report_file = <<>>)

\* C10 amended: an interrupt at any point, or an escaping failure, exits with
\* status 1 and leaves the artifacts on disk; an interrupt delivered in the try
\* body runs the finally block, with every close call made unless a close call
\* is itself cancelled; an interrupt delivered during a close call has that
\* call made; an interrupt delivered at an awaited operation leaves no manifest
\* and no report.
C10_InterruptAmended ==
  /\ (pc = "exited" /\ (interrupt_at # "never" \/ pending = "exception")) =>
       exit_status = "1"
  /\ written \subseteq Paths(disk)
  /\ (pc = "exited" /\ interrupt_at \in TryPcs) =>
       /\ FirstTeardownCall
       /\ "cancelled" \notin teardown_faults => AllTeardownCalls
  /\ (pc = "exited" /\ interrupt_at \in TeardownPcs) => FirstTeardownCall
  /\ interrupt_at \in AwaitPcs => (manifest_file = <<>> /\ report_file = <<>>)

\* interrupted during the screenshot: the HTML dump stays on disk, browser and
\* page are closed, the process exits with status 1 and writes no manifest
C10_Witness ==
  /\ pc = "exited" /\ exit_status = "1" /\ interrupt_at = "screenshot"
  /\ cleanup_calls = {"page", "browser", "playwright"}
  /\ written # {} /\ manifest_file = <<>>

====
